---- MODULE Spec2Model ----
(***************************************************************************)
(* A model of the honeypot service: the scam detector                       *)
(* (app/detection/scam_detector.py), the intelligence extractor             *)
(* (app/extraction/intel_extractor.py), the conversational agent            *)
(* (app/agent/ai_agent.py), the session store (app/utils/session_manager.py)*)
(* and the /api/message handler (app/main.py).                              *)
(*                                                                         *)
(* Texts are strings; a character is a string of length one.  The regular   *)
(* expressions of the source are modelled by what re.findall / re.search    *)
(* do on the text: a left-to-right scan, greedy with backtracking.          *)
(***************************************************************************)
EXTENDS Integers, Sequences, FiniteSets, TLC

(***************************************************************************)
(* Characters and strings                                                  *)
(***************************************************************************)
Char(t, i) == SubSeq(t, i, i)

\* t[i-1:j] of Python: the characters i..j of t that exist
Slice(t, i, j) == SubSeq(t, i, IF j <= Len(t) THEN j ELSE Len(t))

UpperLetters == "ABCDEFGHIJKLMNOPQRSTUVWXYZ"

LowerLetters == "abcdefghijklmnopqrstuvwxyz"

DigitChars == "0123456789"

CharsOf(s) == {Char(s, i) : i \in 1..Len(s)}

\* [0-9], [A-Z] and [a-z]
Digits == CharsOf(DigitChars)

Uppers == CharsOf(UpperLetters)

Lowers == CharsOf(LowerLetters)

\* \w of Python's re on ASCII text
WordChars == Digits \cup Uppers \cup Lowers \cup {"_"}

\* \s of Python's re
SpaceChars == {" ", "\t", "\n", "\r", "\f"}

IsWordChar(c) == c \in WordChars

\* the lower-case letter of every upper-case letter
LowerOf ==
    [c \in Uppers |->
        Char(LowerLetters, CHOOSE i \in 1..Len(UpperLetters) : Char(UpperLetters, i) = c)]

LowerChar(c) == IF c \in Uppers THEN LowerOf[c] ELSE c

\* str.lower(): every character lower-cased (the text is split in halves to
\* keep the recursion shallow)
RECURSIVE lower(_)
lower(t) ==
    IF Len(t) = 0 THEN ""
    ELSE IF Len(t) = 1 THEN LowerChar(t)
    ELSE LET h == Len(t) \div 2
         IN lower(SubSeq(t, 1, h)) \o lower(SubSeq(t, h + 1, Len(t)))

\* Python's `k in t` on strings
Contains(t, k) ==
    \E i \in 1..(Len(t) - Len(k) + 1) : SubSeq(t, i, i + Len(k) - 1) = k

\* any(k in t for k in ks), ks a sequence of strings
ContainsAny(t, ks) == \E n \in 1..Len(ks) : Contains(t, ks[n])

\* the characters i..j-1 of t are all in the class, a set of characters
AllIn(class, t, i, j) == \A n \in i..(j - 1) : Char(t, n) \in class

\* \b at the gap before character i (i in 1..Len(t)+1)
WordBoundary(t, i) ==
    LET before == i > 1 /\ IsWordChar(Char(t, i - 1))
        after == i <= Len(t) /\ IsWordChar(Char(t, i))
    IN before # after

\* the end (exclusive) of the longest run of characters of the class
\* starting at i
RunEnd(class, t, i) ==
    IF \E j \in i..Len(t) : Char(t, j) \notin class
    THEN CHOOSE j \in i..Len(t) :
            Char(t, j) \notin class /\ \A n \in i..(j - 1) : Char(t, n) \in class
    ELSE Len(t) + 1

\* the end (exclusive) of the longest run of characters outside the class
\* starting at i
RunEndOutside(class, t, i) ==
    IF \E j \in i..Len(t) : Char(t, j) \in class
    THEN CHOOSE j \in i..Len(t) :
            Char(t, j) \in class /\ \A n \in i..(j - 1) : Char(t, n) \notin class
    ELSE Len(t) + 1

Max(S) == CHOOSE x \in S : \A y \in S : y <= x

Min(S) == CHOOSE x \in S : \A y \in S : x <= y

Min2(a, b) == IF a <= b THEN a ELSE b

(***************************************************************************)
(* The regular expressions.  Each XxxMatchEnd(t, i) is the end (exclusive)  *)
(* of the match the regex engine finds when it starts at position i, or 0.  *)
(***************************************************************************)
\* [a-zA-Z0-9._-] and [\w\.-]
HandleChars == WordChars \cup {".", "-"}

\* \b[a-zA-Z0-9._-]+@[a-zA-Z0-9._-]+\b
UpiMatchEnd(t, i) ==
    LET at == RunEnd(HandleChars, t, i)
        stop == RunEnd(HandleChars, t, at + 1)
        ends == {e \in (at + 2)..stop : WordBoundary(t, e)}
    IN IF WordBoundary(t, i) /\ at > i /\ at <= Len(t) /\ Char(t, at) = "@"
          /\ ends # {}
       THEN Max(ends)
       ELSE 0

\* \b\d{9,18}\b
DigitRunMatchEnd(t, i) ==
    LET stop == RunEnd(Digits, t, i)
        ends == {e \in (i + 9)..Min2(i + 18, stop) : WordBoundary(t, e)}
    IN IF WordBoundary(t, i) /\ ends # {} THEN Max(ends) ELSE 0

UpperOrDigitChars == Uppers \cup Digits

\* \b[A-Z]{4}0[A-Z0-9]{6}\b
IfscMatchEnd(t, i) ==
    IF /\ i + 10 <= Len(t)
       /\ WordBoundary(t, i)
       /\ AllIn(Uppers, t, i, i + 4)
       /\ Char(t, i + 4) = "0"
       /\ AllIn(UpperOrDigitChars, t, i + 5, i + 11)
       /\ WordBoundary(t, i + 11)
    THEN i + 11
    ELSE 0

\* \b[6-9]\d{9}\b
PhoneMatchEnd(t, i) ==
    IF /\ i + 9 <= Len(t)
       /\ WordBoundary(t, i)
       /\ Char(t, i) \in {"6", "7", "8", "9"}
       /\ AllIn(Digits, t, i + 1, i + 10)
       /\ WordBoundary(t, i + 10)
    THEN i + 10
    ELSE 0

\* the characters the URL body class excludes: whitespace and the quoting
\* characters (the backquote, which the class also excludes, is no character
\* of the model's texts)
UrlStopChars ==
    SpaceChars \cup {"<", ">", "\"", "{", "}", "|", "\\", "^", "[", "]"}

\* https?:// followed by one or more URL body characters
UrlMatchEnd(t, i) ==
    LET body == IF Slice(t, i, i + 6) = "http://" THEN i + 7
                ELSE IF Slice(t, i, i + 7) = "https://" THEN i + 8
                ELSE 0
        stop == IF body > 0 THEN RunEndOutside(UrlStopChars, t, body) ELSE 0
    IN IF body > 0 /\ stop > body THEN stop ELSE 0

MatchEnd(p, t, i) ==
    CASE p = "upi" -> UpiMatchEnd(t, i)
      [] p = "digits" -> DigitRunMatchEnd(t, i)
      [] p = "ifsc" -> IfscMatchEnd(t, i)
      [] p = "phone" -> PhoneMatchEnd(t, i)
      [] p = "url" -> UrlMatchEnd(t, i)

\* the scan of re.findall from position i: the first position at or after i
\* where the expression matches gives the next match, and the scan goes on
\* from the end of that match
RECURSIVE FindAllFrom(_, _, _)
FindAllFrom(p, t, i) ==
    LET starts == {j \in i..Len(t) : MatchEnd(p, t, j) > 0}
    IN IF starts = {} THEN <<>>
       ELSE LET j == Min(starts)
            IN <<SubSeq(t, j, MatchEnd(p, t, j) - 1)>>
               \o FindAllFrom(p, t, MatchEnd(p, t, j))

\* re.findall(pattern, t): the non-overlapping matches, left to right
findall(p, t) == FindAllFrom(p, t, 1)

\* bool(re.search(pattern, t))
search(p, t) == \E i \in 1..Len(t) : MatchEnd(p, t, i) > 0

(***************************************************************************)
(* IntelligenceExtractor (app/extraction/intel_extractor.py)                *)
(***************************************************************************)
upi_providers ==
    <<"paytm", "phonepe", "googlepay", "ybl", "axl", "oksbi", "okicici",
      "okhdfc", "gpay", "bhim", "upi">>

\* the test of the loop of extract_upi_ids: a provider name anywhere in the
\* lower-cased match
IsUpiMatch(match) == ContainsAny(lower(match), upi_providers)

\* the loop of extract_upi_ids over matches[i..]
RECURSIVE UpiIdsFrom(_, _)
UpiIdsFrom(matches, i) ==
    IF i > Len(matches) THEN <<>>
    ELSE (IF IsUpiMatch(matches[i]) THEN <<matches[i]>> ELSE <<>>)
         \o UpiIdsFrom(matches, i + 1)

extract_upi_ids(text) == UpiIdsFrom(findall("upi", text), 1)

account_words == <<"account", "acc", "ifsc", "bank">>

\* a variant of extract_bank_accounts that looks for no word
extract_bank_accounts_ungated(text) == findall("digits", text)

extract_bank_accounts(text) ==
    IF ContainsAny(lower(text), account_words)
    THEN findall("digits", text)
    ELSE <<>>

extract_ifsc_codes(text) == findall("ifsc", text)

extract_phone_numbers(text) == findall("phone", text)

extract_urls(text) == findall("url", text)

bad_signs ==
    <<"bit.ly", "tinyurl", "goo.gl", "login", "verify", "confirm",
      ".tk", ".ml", ".ga", ".cf", "http://">>

is_suspicious_url(url) == ContainsAny(lower(url), bad_signs)

\* [u for u in urls if is_suspicious_url(u)] over urls[i..]
RECURSIVE SuspiciousFrom(_, _)
SuspiciousFrom(urls, i) ==
    IF i > Len(urls) THEN <<>>
    ELSE (IF is_suspicious_url(urls[i]) THEN <<urls[i]>> ELSE <<>>)
         \o SuspiciousFrom(urls, i + 1)

\* the dict extract_all returns, given the lists it has extracted
ExtractedDict(upi_ids, bank_accounts, ifsc_codes, phone_numbers, urls) ==
    [upi_ids |-> upi_ids,
     bank_accounts |-> bank_accounts,
     ifsc_codes |-> ifsc_codes,
     phone_numbers |-> phone_numbers,
     urls |-> urls,
     suspicious_urls |-> SuspiciousFrom(urls, 1)]

extract_all(text) ==
    ExtractedDict(extract_upi_ids(text),
                  extract_bank_accounts(text),
                  extract_ifsc_codes(text),
                  extract_phone_numbers(text),
                  extract_urls(text))

(***************************************************************************)
(* ScamDetector (app/detection/scam_detector.py).  A score is an integer    *)
(* number of thousandths: 0.6 is 600, 1.0 is 1000.                          *)
(***************************************************************************)
scam_keywords ==
    [prize |-> <<"congratulations", "won", "winner", "prize", "lottery",
                 "lucky draw">>,
     urgency |-> <<"urgent", "immediately", "now", "hurry", "limited time",
                   "expires">>,
     money |-> <<"claim", "payment", "transfer", "send money", "pay",
                 "rupees", "rs">>,
     verification |-> <<"verify", "confirm", "update", "kyc", "account",
                        "details">>,
     threat |-> <<"blocked", "suspended", "unauthorized", "fraud",
                  "security alert">>]

\* 0.6
confidence_threshold == 600

\* sum(1 for keyword in keywords if keyword in message)
Matches(message, keywords) ==
    Cardinality({n \in 1..Len(keywords) : Contains(message, keywords[n])})

RECURSIVE SumOver(_, _)
SumOver(f, S) ==
    IF S = {} THEN 0
    ELSE LET x == CHOOSE y \in S : TRUE IN f[x] + SumOver(f, S \ {x})

total_keywords == SumOver([c \in DOMAIN scam_keywords |-> Len(scam_keywords[c])],
                          DOMAIN scam_keywords)

total_matches(message) ==
    SumOver([c \in DOMAIN scam_keywords |-> Matches(message, scam_keywords[c])],
            DOMAIN scam_keywords)

\* a variant of check_keywords without the boost by 3
check_keywords_unboosted(message) ==
    IF total_keywords > 0
    THEN Min2((total_matches(message) * 1000) \div total_keywords, 1000)
    ELSE 0

\* min(total_matches / total_keywords * 3, 1.0)
check_keywords(message) ==
    IF total_keywords > 0
    THEN Min2((total_matches(message) * 3 * 1000) \div total_keywords, 1000)
    ELSE 0

\* http[s]?://|www\.|\.com|\.in
has_url(message) ==
    ContainsAny(message, <<"http://", "https://", "www.", ".com", ".in">>)

detector_providers == <<"paytm", "phonepe", "gpay", "ybl">>

IsDetectorUpiMatch(match) ==
    Contains(match, "@") /\ ContainsAny(lower(match), detector_providers)

\* a variant of has_upi_id with the provider list of extract_upi_ids
has_upi_id_any_provider(message) ==
    LET matches == findall("upi", message)
    IN \E n \in 1..Len(matches) :
          Contains(matches[n], "@") /\ IsUpiMatch(matches[n])

\* \b[\w\.-]+@[\w\.-]+\b is the expression of extract_upi_ids on ASCII text
has_upi_id(message) ==
    LET matches == findall("upi", message)
    IN \E n \in 1..Len(matches) : IsDetectorUpiMatch(matches[n])

has_phone_number(message) == search("phone", message)

check_patterns(message) ==
    Min2((IF has_url(message) THEN 300 ELSE 0)
         + (IF has_upi_id(message) THEN 300 ELSE 0)
         + (IF has_phone_number(message) THEN 200 ELSE 0)
         + (IF search("digits", message) THEN 200 ELSE 0),
         1000)

identify_scam_type(message) ==
    IF ContainsAny(message, <<"prize", "won", "lottery", "winner">>)
    THEN "prize_scam"
    ELSE IF ContainsAny(message, <<"verify", "confirm", "update", "click">>)
    THEN "phishing"
    ELSE IF ContainsAny(message, <<"work from home", "earn", "job", "part time">>)
    THEN "job_scam"
    ELSE IF ContainsAny(message, <<"payment", "transfer", "send money">>)
    THEN "payment_scam"
    ELSE "unknown"

\* Python's None where a string is expected
None == "None"

\* Python's None where an object (a Session, an agent) is expected
NoObject == [none |-> TRUE]

\* round(x, 2) of a score in thousandths, as a number of hundredths
round2(x) == (x + 5) \div 10

\* a variant of DetectionResult that flags only above the threshold
DetectionResult_above(keyword_score, pattern_score, scam_type) ==
    [is_scam |-> (keyword_score + pattern_score) \div 2 > confidence_threshold,
     confidence |-> round2((keyword_score + pattern_score) \div 2),
     scam_type |-> IF (keyword_score + pattern_score) \div 2 > confidence_threshold
                   THEN scam_type
                   ELSE None]

\* a variant of DetectionResult that scores the larger of the two scores
DetectionResult_larger(keyword_score, pattern_score, scam_type) ==
    [is_scam |-> Max({keyword_score, pattern_score}) >= confidence_threshold,
     confidence |-> round2(Max({keyword_score, pattern_score})),
     scam_type |-> IF Max({keyword_score, pattern_score}) >= confidence_threshold
                   THEN scam_type
                   ELSE None]

\* steps 3 and 5 of detect_scam: the result, given the two scores and the
\* scam type; confidence is a number of hundredths
DetectionResult(keyword_score, pattern_score, scam_type) ==
    [is_scam |-> (keyword_score + pattern_score) \div 2 >= confidence_threshold,
     confidence |-> round2((keyword_score + pattern_score) \div 2),
     scam_type |-> IF (keyword_score + pattern_score) \div 2 >= confidence_threshold
                   THEN scam_type
                   ELSE None]

\* steps 1, 2 and 4 of detect_scam, on the lower-cased message
DetectLowered(message, message_lower) ==
    DetectionResult(check_keywords(message_lower),
                    check_patterns(message),
                    identify_scam_type(message_lower))

detect_scam(message) == DetectLowered(message, lower(message))

(***************************************************************************)
(* The inbound texts of the model, and the bounds                          *)
(***************************************************************************)
\* a scam with a phone number: flagged, prize_scam
msg_prize ==
    "Congratulations! You won Rs 50,000 in lucky draw! Send Rs 500 to 9876543210 at paytm-handle to claim. Hurry, offer expires today!"

\* a scam in which nothing is extracted (the digit run has no account word)
msg_bare ==
    "You won the lottery prize! Claim now, urgent: verify kyc details, pay 123456789"

\* not a scam, with a payment handle
msg_handle == "Just pay Rs 1000 registration to myid@phonepe. Very safe!"

\* not a scam, with a phone number
msg_phone == "My number is 7654321098. Call anytime for details."

\* not a scam, with an IFSC code
msg_ifsc == "My branch code is HDFC0001234"

\* not a scam: the handle of msg_handle in another letter case, twice, and
\* the handle of msg_handle itself
msg_handle_caps ==
    "Send it to MyID@PhonePe, not myid@phonepe, I repeat MyID@PhonePe"

\* not a scam, with a URL
msg_link == "Open http://win.in/form and fill it"

\* every text of the model
Texts ==
    {msg_prize, msg_bare, msg_handle, msg_phone, msg_ifsc, msg_handle_caps,
     msg_link}

\* the texts the conversations of Spec are made of
Messages == {msg_bare, msg_handle, msg_ifsc}

\* the texts the conversations of SpecMerge are made of
MergeMessages == {msg_bare, msg_handle, msg_handle_caps}

\* the texts the conversations of SpecAsk are made of
AskMessages == {msg_bare, msg_handle, msg_phone, msg_link}

\* the conversation identifiers
AllSessionIds == {"s1", "s2"}

\* the conversation Spec talks on
SessionIds == {"s1"}

\* no session takes more turns than this
MaxTurns == 5

\* SpecConc submits at most this many requests
MaxRequests == 3

\* detect_scam and extract_all on the model's texts, computed once
DetectionOf == [t \in Texts |-> detect_scam(t)]

ExtractionOf == [t \in Texts |-> extract_all(t)]

(***************************************************************************)
(* Session and SessionManager (app/utils/session_manager.py)               *)
(***************************************************************************)
\* Session.__init__ (created_at and extracted_data are never read)
Session(conversation_id) ==
    [conversation_id |-> conversation_id,
     scam_detected |-> FALSE,
     confidence |-> 0,
     scam_type |-> None,
     scam_indicators |-> <<>>,
     turn_count |-> 0,
     agent |-> NoObject,
     callback_sent |-> FALSE]

\* SessionManager.get_session on the dict `store`
get_session(store, conversation_id) == store[conversation_id]

\* SessionManager.create_session: the dict after it
create_session(store, conversation_id) ==
    [store EXCEPT ![conversation_id] = Session(conversation_id)]

\* a faulty get_or_create_session, which creates the session anew even
\* when it exists
get_or_create_session_anew(store, conversation_id) ==
    create_session(store, conversation_id)

\* SessionManager.get_or_create_session: the dict after it
get_or_create_session(store, conversation_id) ==
    IF get_session(store, conversation_id) = NoObject
    THEN create_session(store, conversation_id)
    ELSE store

(***************************************************************************)
(* ConversationalAgent (app/agent/ai_agent.py)                             *)
(***************************************************************************)
\* ConversationalAgent.__init__ (the persona and the client are not state
\* the handler reads back)
ConversationalAgent ==
    [conversation_history |-> <<>>,
     all_extracted |-> [upi_ids |-> <<>>,
                        bank_accounts |-> <<>>,
                        phone_numbers |-> <<>>,
                        urls |-> <<>>,
                        suspicious_urls |-> <<>>]]

\* the keys _update_extracted loops over
update_keys ==
    {"upi_ids", "bank_accounts", "phone_numbers", "urls", "suspicious_urls"}

\* a faulty inner loop of _update_extracted, which compares the items
\* lower-cased
RECURSIVE AppendNew_caseless(_, _, _)
AppendNew_caseless(list, items, i) ==
    IF i > Len(items) THEN list
    ELSE AppendNew_caseless(
             IF \E n \in 1..Len(list) : lower(list[n]) = lower(items[i])
             THEN list
             ELSE Append(list, items[i]),
             items, i + 1)

\* for item in items: if item not in list: list.append(item)
RECURSIVE AppendNew(_, _, _)
AppendNew(list, items, i) ==
    IF i > Len(items) THEN list
    ELSE AppendNew(IF \E n \in 1..Len(list) : list[n] = items[i]
                   THEN list
                   ELSE Append(list, items[i]),
                   items, i + 1)

\* ConversationalAgent._update_extracted: all_extracted after it
update_extracted(all_extracted, new_data) ==
    [key \in DOMAIN all_extracted |->
        IF key \in update_keys /\ key \in DOMAIN new_data
        THEN AppendNew(all_extracted[key], new_data[key], 1)
        ELSE all_extracted[key]]

\* ConversationalAgent._fallback picks one of these at random
fallback_options ==
    <<"Haan, theek hai! Aur batao please?",
      "Accha! Yeh interesting hai, details batao?",
      "Samajh gaya, aage kya karna hai?",
      "Theek hai bhai, mujhe thoda time do?">>

\* a variant of build_prompt_priority that looks at the phone numbers first
build_prompt_priority_phone_first(all_extracted) ==
    IF all_extracted["phone_numbers"] = <<>> THEN "phone_number"
    ELSE IF all_extracted["upi_ids"] = <<>> THEN "upi_id"
    ELSE IF all_extracted["urls"] = <<>> THEN "links"
    ELSE "naturally"

\* the last lines of _build_prompt: the PRIORITY line of the system prompt,
\* named by what it asks for
build_prompt_priority(all_extracted) ==
    IF all_extracted["upi_ids"] = <<>> THEN "upi_id"
    ELSE IF all_extracted["phone_numbers"] = <<>> THEN "phone_number"
    ELSE IF all_extracted["urls"] = <<>> THEN "links"
    ELSE "naturally"

\* what the chat completion call does: it returns a reply or it raises
GenerationOutcomes == {"reply", "error"}

\* the text a successful completion returns
generated_reply == "Accha ji, paise kahan bhejun?"

\* ConversationalAgent.generate_response: the agent after it and the reply.
\* The inbound text is appended and its extraction merged before the
\* completion call; the reply is appended only when the call returns.
\* steps 3-6 of generate_response: heard is the history with the inbound text
\* appended, merged is all_extracted after _update_extracted; priority is
\* the PRIORITY line of the system prompt of step 3
Generated(heard, merged, gen, choice) ==
    IF gen = "reply"
    THEN [agent |-> [conversation_history |->
                         Append(heard, [role |-> "assistant",
                                        content |-> generated_reply]),
                     all_extracted |-> merged],
          reply |-> generated_reply,
          priority |-> build_prompt_priority(merged)]
    ELSE [agent |-> [conversation_history |-> heard,
                     all_extracted |-> merged],
          reply |-> fallback_options[choice],
          priority |-> build_prompt_priority(merged)]

generate_response(agent, scammer_message, gen, choice) ==
    Generated(Append(agent.conversation_history,
                     [role |-> "user", content |-> scammer_message]),
              update_extracted(agent.all_extracted,
                               ExtractionOf[scammer_message]),
              gen, choice)

\* ConversationalAgent.get_extracted_intelligence
get_extracted_intelligence(agent) == agent.all_extracted

(***************************************************************************)
(* The application (app/main.py)                                           *)
(***************************************************************************)
VARIABLES
    sessions,        \* session_manager.sessions: id -> Session, NoObject if absent
    openai_api_key,  \* os.getenv('OPENAI_API_KEY'): "set" or None
    last,            \* the last /api/message request served and its outcome
    pending,         \* SpecConc: the requests received and not yet served
    submitted,       \* SpecConc: the number of requests received
    saw_zero         \* SpecConc: the served requests that read turn_count 0

vars == <<sessions, openai_api_key, last, pending, submitted, saw_zero>>

\* what requests.post does: a 200 response, another response, an exception
CallbackOutcomes == {"200", "500", "raised"}

\* sum(len(v) for v in intel.values() if isinstance(v, list))
total_items(intel) == SumOver([key \in DOMAIN intel |-> Len(intel[key])], DOMAIN intel)

\* a faulty should_send_callback, without the test of lines 153-154
should_send_callback_any_turn(session) ==
    IF ~session.scam_detected THEN FALSE
    ELSE IF session.agent # NoObject
            /\ total_items(get_extracted_intelligence(session.agent)) > 0
    THEN TRUE
    ELSE session.turn_count >= 5

\* a variant of should_send_callback that waits for an indicator whatever
\* the turn count
should_send_callback_no_deadline(session) ==
    IF ~session.scam_detected THEN FALSE
    ELSE IF session.turn_count < 3 THEN FALSE
    ELSE session.agent # NoObject
         /\ total_items(get_extracted_intelligence(session.agent)) > 0

should_send_callback(session) ==
    IF ~session.scam_detected THEN FALSE
    ELSE IF session.turn_count < 3 THEN FALSE
    ELSE IF session.agent # NoObject
            /\ total_items(get_extracted_intelligence(session.agent)) > 0
    THEN TRUE
    ELSE session.turn_count >= 5

\* [m for m in history if m.get("role") == "user"], the contents
RECURSIVE UserTextsFrom(_, _)
UserTextsFrom(history, i) ==
    IF i > Len(history) THEN <<>>
    ELSE (IF history[i].role = "user" THEN <<history[i].content>> ELSE <<>>)
         \o UserTextsFrom(history, i + 1)

\* a variant of total_messages that counts every entry of the history
total_messages_all_entries(session) ==
    IF session.agent # NoObject
    THEN Len(session.agent.conversation_history)
    ELSE 0

\* lines 88-94 of send_final_callback: the number of user entries of the
\* agent's history, 0 without an agent
total_messages(session) ==
    IF session.agent # NoObject
    THEN Cardinality({n \in 1..Len(session.agent.conversation_history) :
                         session.agent.conversation_history[n].role = "user"})
    ELSE 0

\* lines 103-106 of send_final_callback: the payload of the report call
\* (its scamDetected and totalMessagesExchanged)
callback_payload(session) ==
    [scamDetected |-> session.scam_detected,
     totalMessagesExchanged |-> total_messages(session)]

\* a faulty send_final_callback, which returns True on any response
send_final_callback_any_response(outcome) == outcome # "raised"

\* send_final_callback: True on a 200 response, False on any other response
\* and on an exception
send_final_callback(outcome) == outcome = "200"

\* lines 203-206 of handle_message: the detection stored in the session
store_detection(session, detection) ==
    [session EXCEPT !.scam_detected = detection.is_scam,
                    !.confidence = detection.confidence,
                    !.scam_type = detection.scam_type,
                    !.scam_indicators = <<>>]

\* a faulty version of lines 240-242, which does not test callback_sent
mark_callback_untested(session, callback_sent) ==
    [session EXCEPT !.callback_sent = TRUE]

\* lines 240-242 of handle_message
mark_callback(session, callback_sent) ==
    IF callback_sent THEN [session EXCEPT !.callback_sent = TRUE] ELSE session

neutral_reply == "I'm sorry, I don't understand. Could you please clarify?"

\* the request `last` holds before any request is served
NoRequest ==
    [sid |-> None, text |-> None, status |-> 0, reply |-> None,
     detected |-> FALSE, generation |-> "none", callback |-> "none",
     priority |-> "none", payload |-> NoObject]

\* a variant of Detected that classifies every message, not the first only
Detected_every_turn(store, sid, text) ==
    LET created == get_or_create_session(store, sid)
        session == created[sid]
    IN [sessions |-> created,
        session |-> store_detection(session, DetectionOf[text]),
        first |-> session.turn_count = 0]

\* lines 195-210 of handle_message: the session dict after
\* get_or_create_session, the session after the detection of a first
\* message, and whether detect_scam was called
Detected(store, sid, text) ==
    LET created == get_or_create_session(store, sid)
        session == created[sid]
    IN [sessions |-> created,
        session |-> IF session.turn_count = 0
                    THEN store_detection(session, DetectionOf[text])
                    ELSE session,
        first |-> session.turn_count = 0]

\* line 217: ConversationalAgent() builds the OpenAI client, which raises
\* when no API key is set
AgentRaises(session, key) == session.agent = NoObject /\ key = None

\* lines 213-230 of handle_message, when they do not raise: the session
\* after them, the reply, and what the completion call did
\*   generation: "none" (no agent involved), "reply", or "error" (the
\*               completion call raised and the agent fell back)
Spoken(session, answer, gen) ==
    [session |-> [session EXCEPT !.agent = answer.agent],
     reply |-> answer.reply,
     generation |-> gen,
     priority |-> answer.priority]

Engaged(session, text, gen, choice) ==
    IF session.scam_detected
    THEN Spoken(session,
                generate_response(
                    IF session.agent = NoObject THEN ConversationalAgent
                    ELSE session.agent,
                    text, gen, choice),
                gen)
    ELSE [session |-> session, reply |-> neutral_reply, generation |-> "none",
          priority |-> "none"]

\* line 233
Counted(session) == [session EXCEPT !.turn_count = @ + 1]

\* lines 236-242 of handle_message: the session after them, and what the
\* callback request did: "none" (send_final_callback was not called), "200"
\* (the collector answered 200) or "failed" (another status, or an
\* exception)
CompletedIf(send, session, outcome) ==
    [session |-> IF send
                 THEN mark_callback(session, send_final_callback(outcome))
                 ELSE session,
     callback |-> IF ~send THEN "none"
                  ELSE IF outcome = "200" THEN "200" ELSE "failed",
     payload |-> IF send THEN callback_payload(session) ELSE NoObject]

Completed(session, outcome) ==
    CompletedIf(should_send_callback(session), session, outcome)

\* the request served and its outcome
Outcome(sid, text, status, reply, detected, generation, callback) ==
    [sid |-> sid, text |-> text, status |-> status, reply |-> reply,
     detected |-> detected, generation |-> generation, callback |-> callback,
     priority |-> "none", payload |-> NoObject]

\* a faulty version of lines 232-251, in which the agents of all sessions
\* are one object (state kept on the class, not on the instance)
Responded_shared_agent(d, e, c, sid, text) ==
    [sessions |->
        [id \in DOMAIN d.sessions |->
            IF id = sid THEN c.session
            ELSE IF d.sessions[id] = NoObject THEN d.sessions[id]
            ELSE IF d.sessions[id].agent = NoObject THEN d.sessions[id]
            ELSE [d.sessions[id] EXCEPT !.agent = c.session.agent]],
     last |-> [Outcome(sid, text, 200, e.reply, d.first, e.generation,
                       c.callback) EXCEPT !.priority = e.priority,
                                          !.payload = c.payload]]

\* lines 232-251 of handle_message, after the reply e of Engaged: the dict
\* and the outcome, given c, the result of Completed
Responded(d, e, c, sid, text) ==
    [sessions |-> [d.sessions EXCEPT ![sid] = c.session],
     last |-> [Outcome(sid, text, 200, e.reply, d.first, e.generation,
                       c.callback) EXCEPT !.priority = e.priority,
                                          !.payload = c.payload]]

Answered(d, e, sid, text, outcome) ==
    Responded(d, e, Completed(Counted(e.session), outcome), sid, text)

\* lines 212-255 of handle_message after the detection d of Detected.  An
\* exception in the body is answered with HTTP 500 (lines 253-255);
\* generation is then "unavailable".
Continued(d, key, sid, text, gen, choice, outcome) ==
    IF d.session.scam_detected /\ AgentRaises(d.session, key)
    THEN [sessions |-> [d.sessions EXCEPT ![sid] = d.session],
          last |-> Outcome(sid, text, 500, None, d.first, "unavailable",
                           "none")]
    ELSE Answered(d, Engaged(d.session, text, gen, choice), sid, text,
                  outcome)

\* The body of handle_message on the session dict `store`: the dict after
\* it and the request with its outcome.  gen, choice and outcome are what
\* the completion call, random.choice and requests.post do if they are
\* reached.
Handled(store, key, sid, text, gen, choice, outcome) ==
    Continued(Detected(store, sid, text), key, sid, text, gen, choice,
              outcome)

\* the outcomes of the external calls that a request can tell apart:
\* random.choice is reached only when the completion call raised
Choices(gen) == IF gen = "error" THEN 1..Len(fallback_options) ELSE {1}

TurnCount(sid) == IF sessions[sid] = NoObject THEN 0 ELSE sessions[sid].turn_count

Init ==
    /\ sessions = [sid \in AllSessionIds |-> NoObject]
    /\ openai_api_key \in {"set", None}
    /\ last = NoRequest
    /\ pending = {}
    /\ submitted = 0
    /\ saw_zero = 0

\* POST /api/message with a valid key: the handler has no await in it, so
\* the event loop runs it from the first line to the response
handle_message(sid, text) ==
    /\ TurnCount(sid) < MaxTurns
    /\ \E gen \in GenerationOutcomes : \E choice \in Choices(gen) :
          \E outcome \in CallbackOutcomes :
          LET done == Handled(sessions, openai_api_key, sid, text, gen,
                              choice, outcome)
          IN /\ sessions' = done.sessions
             /\ last' = done.last
    /\ UNCHANGED <<openai_api_key, pending, submitted, saw_zero>>

Next == \E sid \in SessionIds, text \in Messages : handle_message(sid, text)

Spec == Init /\ [][Next]_vars

(***************************************************************************)
(* Concurrent requests.  handle_message is a coroutine without an await:   *)
(* requests that arrive together wait, and the event loop runs the handler *)
(* of one of them to its end before it starts the next.                    *)
(***************************************************************************)
\* a request arrives
Receive(sid, text) ==
    /\ submitted < MaxRequests
    /\ pending' = pending \cup {[id |-> submitted + 1, sid |-> sid, text |-> text]}
    /\ submitted' = submitted + 1
    /\ UNCHANGED <<sessions, openai_api_key, last, saw_zero>>

\* the event loop runs the handler of a waiting request
Serve(request) ==
    /\ \E gen \in GenerationOutcomes : \E choice \in Choices(gen) :
          \E outcome \in CallbackOutcomes :
          LET done == Handled(sessions, openai_api_key, request.sid,
                              request.text, gen, choice, outcome)
          IN /\ sessions' = done.sessions
             /\ last' = done.last
             /\ saw_zero' = saw_zero + (IF done.last.detected THEN 1 ELSE 0)
    /\ pending' = pending \ {request}
    /\ UNCHANGED <<openai_api_key, submitted>>

NextConc ==
    \/ \E sid \in SessionIds, text \in Messages : Receive(sid, text)
    \/ \E request \in pending : Serve(request)

SpecConc == Init /\ [][NextConc]_vars

(***************************************************************************)
(* Conversations that repeat a payment handle, in the same and in another   *)
(* letter case                                                              *)
(***************************************************************************)
NextMerge == \E sid \in SessionIds, text \in MergeMessages : handle_message(sid, text)

SpecMerge == Init /\ [][NextMerge]_vars

\* Conversations with a payment handle, a phone number and a URL
NextAsk == \E sid \in SessionIds, text \in AskMessages : handle_message(sid, text)

SpecAsk == Init /\ [][NextAsk]_vars

(***************************************************************************)
(* The API key, GET /api/session/{id} and the other methods of the         *)
(* SessionManager, on two conversations                                    *)
(***************************************************************************)
\* the default of os.getenv("HONEYPOT_API_KEY", ...)
HONEYPOT_API_KEY == "honeypot-secret-2024"

\* the keys a request carries in its x-api-key header
ApiKeys == {HONEYPOT_API_KEY, "wrong-key"}

\* the texts the conversations of SpecStore are made of
StoreMessages == {msg_bare, msg_handle}

\* a faulty verify_api_key, which lets every key pass
verify_api_key_any_key(x_api_key) == TRUE

\* verify_api_key: TRUE when it returns, FALSE when it raises HTTP 403
verify_api_key(x_api_key) == x_api_key = HONEYPOT_API_KEY

\* SessionManager.delete_session: the dict after it
delete_session(store, conversation_id) ==
    IF store[conversation_id] # NoObject
    THEN [store EXCEPT ![conversation_id] = NoObject]
    ELSE store

\* SessionManager.get_active_count
get_active_count(store) ==
    Cardinality({id \in DOMAIN store : store[id] # NoObject})

\* the dict get_session_info returns for a session
SessionInfo(session_id, session) ==
    [sessionId |-> session_id,
     scamDetected |-> session.scam_detected,
     confidence |-> session.confidence,
     scamType |-> session.scam_type,
     turnCount |-> session.turn_count,
     callbackSent |-> session.callback_sent,
     extractedIntelligence |->
         IF session.agent # NoObject
         THEN get_extracted_intelligence(session.agent)
         ELSE <<>>,
     conversationHistory |->
         IF session.agent # NoObject
         THEN session.agent.conversation_history
         ELSE <<>>]

\* a faulty get_session_info, which looks the session up with
\* get_or_create_session
get_session_info_or_create(store, x_api_key, session_id) ==
    IF ~verify_api_key(x_api_key)
    THEN [sessions |-> store, status |-> 403, body |-> NoObject]
    ELSE [sessions |-> get_or_create_session(store, session_id),
          status |-> 200,
          body |-> SessionInfo(session_id,
                               get_or_create_session(store, session_id)[session_id])]

\* get_session_info: the dict after it, the HTTP status and the body (HTTP
\* 403 for a wrong key, HTTP 404 for a session that does not exist)
get_session_info(store, x_api_key, session_id) ==
    IF ~verify_api_key(x_api_key)
    THEN [sessions |-> store, status |-> 403, body |-> NoObject]
    ELSE IF get_session(store, session_id) = NoObject
    THEN [sessions |-> store, status |-> 404, body |-> NoObject]
    ELSE [sessions |-> store, status |-> 200,
          body |-> SessionInfo(session_id, get_session(store, session_id))]

\* POST /api/message with the key x_api_key: verify_api_key raises HTTP 403
\* before the body of the handler, which is that of handle_message
PostMessage(x_api_key, sid, text) ==
    /\ submitted < MaxRequests
    /\ IF ~verify_api_key(x_api_key)
       THEN /\ sessions' = sessions
            /\ last' = Outcome(sid, text, 403, None, FALSE, "none", "none")
       ELSE \E gen \in GenerationOutcomes : \E choice \in Choices(gen) :
               \E outcome \in CallbackOutcomes :
               LET done == Handled(sessions, openai_api_key, sid, text, gen,
                                   choice, outcome)
               IN /\ sessions' = done.sessions
                  /\ last' = done.last
    /\ submitted' = submitted + 1
    /\ UNCHANGED <<openai_api_key, pending, saw_zero>>

\* GET /api/session/{id}: last is the request and its response
GetSessionInfo(x_api_key, sid) ==
    LET got == get_session_info(sessions, x_api_key, sid)
    IN /\ sessions' = got.sessions
       /\ last' = [sid |-> sid, status |-> got.status, body |-> got.body]
       /\ UNCHANGED <<openai_api_key, pending, submitted, saw_zero>>

\* session_manager.delete_session(id)
DeleteSession(sid) ==
    /\ sessions' = delete_session(sessions, sid)
    /\ UNCHANGED <<openai_api_key, last, pending, submitted, saw_zero>>

NextStore ==
    \/ \E x_api_key \in ApiKeys, sid \in AllSessionIds, text \in StoreMessages :
          PostMessage(x_api_key, sid, text)
    \/ \E x_api_key \in ApiKeys, sid \in AllSessionIds :
          GetSessionInfo(x_api_key, sid)
    \/ \E sid \in AllSessionIds : DeleteSession(sid)

SpecStore == Init /\ [][NextStore]_vars

(***************************************************************************)
(* What a client can see of a session                                      *)
(***************************************************************************)
\* intel.get(key, []) on the extractedIntelligence of get_session_info: the
\* agent's lists, nothing when the session has no agent
Listed(session, key) ==
    IF session = NoObject THEN <<>>
    ELSE IF session.agent = NoObject THEN <<>>
    ELSE IF key \in DOMAIN get_extracted_intelligence(session.agent)
    THEN get_extracted_intelligence(session.agent)[key]
    ELSE <<>>

\* the inbound texts the agent of a session has processed, in order
UserTexts(session) ==
    IF session = NoObject THEN <<>>
    ELSE IF session.agent = NoObject THEN <<>>
    ELSE UserTextsFrom(session.agent.conversation_history, 1)

(***************************************************************************)
(* The terms of the properties                                             *)
(***************************************************************************)
\* the five indicator categories
categories ==
    {"upi_ids", "bank_accounts", "ifsc_codes", "phone_numbers", "urls"}

\* the number of indicators a session has accumulated, over the five
\* categories
IndicatorCount(session) ==
    Len(Listed(session, "upi_ids")) + Len(Listed(session, "bank_accounts"))
    + Len(Listed(session, "ifsc_codes")) + Len(Listed(session, "phone_numbers"))
    + Len(Listed(session, "urls"))

\* the completion policy: a scam session of at least 3 turns with an
\* indicator, or of at least 5 turns
Policy(session) ==
    /\ session.scam_detected
    /\ session.turn_count >= 3
    /\ (IndicatorCount(session) > 0 \/ session.turn_count >= 5)

\* the session was reported: it exists and its callback_sent flag is set
Reported(store, sid) ==
    IF store[sid] = NoObject THEN FALSE ELSE store[sid].callback_sent

\* every item of the sequence items is in the sequence list
AllListed(items, list) ==
    \A n \in 1..Len(items) : \E m \in 1..Len(list) : list[m] = items[n]

\* the deduplicated union, in discovery order, of what extract_all returns
\* under key for the texts 1..n
RECURSIVE Cumulative(_, _, _)
Cumulative(texts, key, n) ==
    IF n = 0 THEN <<>>
    ELSE AppendNew(Cumulative(texts, key, n - 1), ExtractionOf[texts[n]][key], 1)

(***************************************************************************)
(* Properties of Spec.  A step of Spec serves one request; last' is that    *)
(* request and its outcome, sessions and sessions' the store before and     *)
(* after it.                                                                *)
(***************************************************************************)
\* C1: once a report call of a conversation has succeeded (callback_sent is
\* set), no later turn of that conversation issues another report call.
\* The handler does not read callback_sent, so this fails.
C1_NoReportAfterSuccess ==
    [][\A sid \in AllSessionIds :
          (Reported(sessions, sid) /\ last'.sid = sid) => last'.callback = "none"]_vars

\* C2: a turn issues a report call only if, after the increment of the turn
\* count, the session is a scam session, its turn count is at least 3, and
\* it has an indicator or its turn count is at least 5.
C2_ReportOnlyUnderPolicy ==
    last.callback # "none" => Policy(sessions[last.sid])

\* C2, the case: a report call issued at turn 3 of a scam session that has
\* an indicator
C2_Witness ==
    /\ last.callback # "none"
    /\ sessions[last.sid].turn_count = 3
    /\ IndicatorCount(sessions[last.sid]) > 0

\* C3: the classifier runs on the first inbound message of a session only,
\* and no later call, a failed one included, changes the stored
\* classification.  A call that fails leaves the turn count at 0, and the
\* next call classifies again, so this fails.
C3_ClassifiedOnce ==
    [][\A sid \in AllSessionIds :
          (sessions[sid] # NoObject /\ last'.sid = sid) =>
              /\ ~last'.detected
              /\ sessions'[sid].scam_detected = sessions[sid].scam_detected
              /\ sessions'[sid].confidence = sessions[sid].confidence
              /\ sessions'[sid].scam_type = sessions[sid].scam_type]_vars

\* C4: after every processed message, whatever the session's state, the
\* payment handles, phone numbers and URLs extracted from the message are in
\* the session's indicators.  A session that is not a scam has no agent and
\* merges nothing, so this fails.
C4_MergedInEveryState ==
    last.status = 200 =>
        \A key \in {"upi_ids", "phone_numbers", "urls"} :
            AllListed(ExtractionOf[last.text][key],
                      Listed(sessions[last.sid], key))

\* C5: a turn of a scam session in which the text generation fails (the
\* completion call raises, or the agent cannot be built) is answered, adds
\* one to the turn count, merges what was extracted from its text into the
\* agent's lists, and issues the report call exactly when the completion
\* policy holds.  A completion call that raises does all this; a turn in
\* which the agent cannot be built is answered HTTP 500 before any of it,
\* so this fails.
C5_FailedGenerationStillAdvances ==
    [][\A sid \in AllSessionIds :
          (last'.sid = sid /\ last'.generation \in {"error", "unavailable"}) =>
              /\ last'.status = 200
              /\ sessions'[sid].scam_detected
              /\ sessions'[sid].turn_count = TurnCount(sid) + 1
              /\ \A key \in {"upi_ids", "bank_accounts", "phone_numbers", "urls"} :
                    Listed(sessions'[sid], key)
                        = AppendNew(Listed(sessions[sid], key),
                                    ExtractionOf[last'.text][key], 1)
              /\ (last'.callback # "none") <=> Policy(sessions'[sid])]_vars

\* C6: when the text generation fails or is unavailable, the call is
\* answered and the reply is one of the fixed fallback replies.  Without an
\* API key the agent cannot be built and the call is answered HTTP 500, so
\* this fails.
C6_GenerationFailureAnswered ==
    last.generation \in {"error", "unavailable"} =>
        /\ last.status = 200
        /\ \E n \in 1..Len(fallback_options) : last.reply = fallback_options[n]

\* C7: a turn whose report call fails is answered, leaves the reported flag
\* as it was and keeps the turn count and the indicators; and every
\* answered turn of an unreported session after which the completion policy
\* holds issues the report call (again, if an earlier one failed).
C7_FailedReportIsRetried ==
    [][\A sid \in AllSessionIds :
          last'.sid = sid =>
              /\ last'.callback = "failed" =>
                    /\ last'.status = 200
                    /\ Reported(sessions', sid) = Reported(sessions, sid)
                    /\ sessions'[sid].turn_count = TurnCount(sid) + 1
                    /\ \A key \in categories :
                          AllListed(Listed(sessions[sid], key),
                                    Listed(sessions'[sid], key))
              /\ (/\ ~Reported(sessions, sid)
                  /\ last'.status = 200
                  /\ Policy(sessions'[sid])) => last'.callback # "none"]_vars

\* C7, the case: the policy held at turn 3 (the handle came at turn 2), the
\* session is unreported after turn 4, so the report call of turn 3 failed,
\* and turn 4 issued it again, and it failed again
C7_Witness ==
    /\ UserTexts(sessions["s1"]) = <<msg_bare, msg_handle, msg_bare, msg_bare>>
    /\ sessions["s1"].turn_count = 4
    /\ last.callback = "failed"
    /\ ~Reported(sessions, "s1")

\* C8: the reported flag of a session becomes true only in a turn of that
\* session whose report call returned success, and once true it is never
\* set back to false.
C8_ReportedOnlyOnSuccess ==
    [][\A sid \in AllSessionIds :
          /\ Reported(sessions, sid) => Reported(sessions', sid)
          /\ (~Reported(sessions, sid) /\ Reported(sessions', sid)) =>
                (last'.sid = sid /\ last'.callback = "200")]_vars

\* C8, the case: a reported session has served a later turn, whose own
\* report call failed, and is still reported
C8_Witness ==
    /\ Reported(sessions, "s1")
    /\ last.sid = "s1"
    /\ last.callback = "failed"

\* C10: for each of the five categories, the indicators of a scam session
\* are the deduplicated union, in discovery order, of what extract_all
\* returns for the messages processed so far.  The agent keeps no list of
\* IFSC codes, so this fails.
C10_CumulativeIsUnion ==
    \A sid \in AllSessionIds :
        (sessions[sid] # NoObject /\ sessions[sid].scam_detected) =>
            \A key \in categories :
                Listed(sessions[sid], key)
                    = Cumulative(UserTexts(sessions[sid]), key,
                                 Len(UserTexts(sessions[sid])))

(***************************************************************************)
(* Properties of SpecConc                                                  *)
(***************************************************************************)
\* C9: when two or more requests of one conversation are submitted, in
\* whatever order they are served, at most one of them reads turn count 0,
\* and once all are served the turn count is the number of requests
\* submitted.  A request answered HTTP 500 leaves the turn count at 0, so
\* this fails.
C9_ConcurrentTurnsCounted ==
    submitted >= 2 =>
        /\ saw_zero <= 1
        /\ pending = {} => TurnCount("s1") = submitted

(***************************************************************************)
(* Properties of SpecMerge                                                 *)
(***************************************************************************)
\* the lists a session's agent keeps
kept_lists ==
    {"upi_ids", "bank_accounts", "phone_numbers", "urls", "suspicious_urls"}

\* the sequence a is the beginning of the sequence b
IsPrefix(a, b) == Len(a) <= Len(b) /\ SubSeq(b, 1, Len(a)) = a

\* no string is twice in the list
NoDuplicates(list) ==
    \A n, m \in 1..Len(list) : list[n] = list[m] => n = m

\* C11: the indicator lists of a session are append-only and deduplicated by
\* exact string value: no list ever holds a string twice; a turn leaves
\* every list as a beginning of the list after it (nothing removed, nothing
\* reordered); after a turn of a scam session every string extracted from
\* its text is in the list as it was written, letter case included; and
\* merging the extraction of that text once more changes nothing.
C11_AppendOnlyExactDedup ==
    [][\A sid \in AllSessionIds : \A key \in categories \cup kept_lists :
          /\ NoDuplicates(Listed(sessions'[sid], key))
          /\ IsPrefix(Listed(sessions[sid], key), Listed(sessions'[sid], key))
          /\ (last'.sid = sid /\ last'.status = 200 /\ key \in kept_lists
              /\ sessions'[sid].scam_detected) =>
                /\ AllListed(ExtractionOf[last'.text][key],
                             Listed(sessions'[sid], key))
                /\ AppendNew(Listed(sessions'[sid], key),
                             ExtractionOf[last'.text][key], 1)
                       = Listed(sessions'[sid], key)]_vars

\* C11, the case: the session holds the handle in both letter cases, in the
\* order it met them, and has since merged the text that repeats them
C11_Witness ==
    /\ Listed(sessions["s1"], "upi_ids") = <<"myid@phonepe", "MyID@PhonePe">>
    /\ last.text = msg_handle_caps
    /\ sessions["s1"].turn_count >= 4

(***************************************************************************)
(* Properties of SpecStore.  sessions and sessions' are the store before    *)
(* and after a step.                                                        *)
(***************************************************************************)
\* C12: GET /api/session/{id} with a valid key for an identifier that has no
\* session is answered HTTP 404 without a body, and no GET changes the
\* store: the lookup creates no session.
C12_MissingSessionNotFound ==
    [][\A x_api_key \in ApiKeys, sid \in AllSessionIds :
          GetSessionInfo(x_api_key, sid) =>
              /\ sessions' = sessions
              /\ (x_api_key = HONEYPOT_API_KEY /\ sessions[sid] = NoObject) =>
                    (last'.status = 404 /\ last'.body = NoObject)]_vars

\* C12, the case: a lookup of a conversation without a session was answered
\* 404 while the other conversation has a session
C12_Witness ==
    /\ last.status = 404
    /\ sessions[last.sid] = NoObject
    /\ \E sid \in AllSessionIds : sessions[sid] # NoObject

\* the session is in the default state: no turn, not a scam, not reported,
\* no agent and so no indicators
IsDefault(session, sid) ==
    /\ session # NoObject
    /\ session.conversation_id = sid
    /\ session.turn_count = 0
    /\ ~session.scam_detected
    /\ ~session.callback_sent
    /\ IndicatorCount(session) = 0
    /\ UserTexts(session) = <<>>

\* C13: the store holds one session per identifier, under its own
\* identifier.  get_or_create_session creates a session in the default
\* state when the identifier is absent, returns the existing session with
\* its state when it is present, and touches no other identifier.  The
\* count changes by one with every session that appears or disappears; a
\* session appears only in a POST /api/message with a valid key for its
\* identifier and disappears only in a delete_session of its identifier,
\* after which get_session finds nothing and get_or_create_session starts
\* from the default state.
C13_OneSessionPerIdentifier ==
    [][\A sid \in AllSessionIds :
          /\ sessions'[sid] # NoObject => sessions'[sid].conversation_id = sid
          /\ IF sessions[sid] = NoObject
             THEN IsDefault(get_or_create_session(sessions, sid)[sid], sid)
             ELSE get_or_create_session(sessions, sid)[sid] = sessions[sid]
          /\ \A other \in AllSessionIds \ {sid} :
                get_or_create_session(sessions, sid)[other] = sessions[other]
          /\ (sessions[sid] = NoObject /\ sessions'[sid] # NoObject) =>
                /\ \E text \in StoreMessages :
                      PostMessage(HONEYPOT_API_KEY, sid, text)
                /\ get_active_count(sessions') = get_active_count(sessions) + 1
          /\ (sessions[sid] # NoObject /\ sessions'[sid] = NoObject) =>
                /\ DeleteSession(sid)
                /\ get_active_count(sessions') = get_active_count(sessions) - 1
          /\ (DeleteSession(sid) /\ sessions[sid] # NoObject) =>
                /\ get_session(sessions', sid) = NoObject
                /\ IsDefault(get_or_create_session(sessions', sid)[sid], sid)
          /\ (\A id \in AllSessionIds :
                (sessions[id] = NoObject) = (sessions'[id] = NoObject)) =>
                get_active_count(sessions') = get_active_count(sessions)]_vars

\* C13, the case: the last request served was answered for a conversation
\* whose session has since been deleted, while the other conversation has
\* kept its session
C13_Witness ==
    /\ last.sid = "s1"
    /\ last.status = 200
    /\ sessions["s1"] = NoObject
    /\ sessions["s2"] # NoObject
    /\ sessions["s2"].turn_count = 2
    /\ get_active_count(sessions) = 1

C19_WrongKeyRejected ==
    [][\A x_api_key \in ApiKeys \ {HONEYPOT_API_KEY}, sid \in AllSessionIds,
         text \in StoreMessages :
          PostMessage(x_api_key, sid, text) =>
              (last'.status = 403 /\ sessions' = sessions)]_vars

\* C19, the case: a request was refused for a conversation that has no
\* session, while the other conversation has one
C19_Witness ==
    /\ last.status = 403
    /\ "text" \in DOMAIN last
    /\ sessions[last.sid] = NoObject
    /\ \E sid \in AllSessionIds : sessions[sid] # NoObject

(***************************************************************************)
(* detect_scam on single texts: SpecClassify draws a text and classifies   *)
(* it, as handle_message does with request.message.text (main.py:201)      *)
(***************************************************************************)
\* no text is made of more pieces than this
MaxTokens == 3

\* every concatenation of at most n of the tokens
RECURSIVE TokenTexts(_, _)
TokenTexts(tokens, n) ==
    IF n = 0 THEN {""}
    ELSE LET shorter == TokenTexts(tokens, n - 1)
         IN shorter \cup {s \o t : s \in shorter, t \in tokens}

\* pieces of messages: four and six keywords, a phone number (which is a
\* digit run too), a payment handle with three keywords, a URL, a sentence
\* with no keyword and no pattern, and two handles with no keyword, of a
\* provider that _has_upi_id lists and of one that only extract_upi_ids
\* lists
ClassifyTokens ==
    {"Congratulations, you won the lottery prize! ",
     "Claim now, hurry: verify kyc details. ",
     "Call 9876543210 ",
     "Send money, pay rupees to name@paytm ",
     "See http://win.in/x ",
     "Nice weather today! ",
     "name@phonepe ",
     "name@oksbi "}

\* the message of test_prize_scam
msg_test_prize ==
    "Congratulations! You won Rs 50,000 in lucky draw! Send Rs 500 to 9876543210@paytm to claim. Hurry, offer expires today!"

\* the message of test_normal
msg_normal == "Hello, how are you? Nice weather today!"

ClassifyTexts ==
    TokenTexts(ClassifyTokens, MaxTokens) \cup Texts
        \cup {msg_test_prize, msg_normal}

InitClassify ==
    /\ sessions = [sid \in AllSessionIds |-> NoObject]
    /\ openai_api_key \in {"set", None}
    /\ \E text \in ClassifyTexts : last = [text |-> text, detection |-> NoObject]
    /\ pending = {}
    /\ submitted = 0
    /\ saw_zero = 0

\* detection = detector.detect_scam(request.message.text)
classify ==
    /\ last.detection = NoObject
    /\ last' = [last EXCEPT !.detection = detect_scam(last.text)]
    /\ UNCHANGED <<sessions, openai_api_key, pending, submitted, saw_zero>>

NextClassify == classify

SpecClassify == InitClassify /\ [][NextClassify]_vars

\* the text has been classified
Classified == last.detection # NoObject

\* C15: for every message, the returned confidence is the mean of the
\* keyword score and the pattern score and lies between 0 and 1; is_scam is
\* true exactly when the returned confidence is at least 0.6; and the scam
\* type is None exactly when is_scam is false
C15_ClassificationContract ==
    Classified =>
        /\ last.detection.confidence * 10 * 2
              = check_keywords(lower(last.text)) + check_patterns(last.text)
        /\ last.detection.confidence >= 0
        /\ last.detection.confidence <= 100
        /\ last.detection.is_scam <=> last.detection.confidence * 10 >= confidence_threshold
        /\ last.detection.scam_type = None <=> ~last.detection.is_scam

\* a text whose confidence is exactly 0.6 has been classified as a scam
C15_Witness ==
    /\ Classified
    /\ last.text \in TokenTexts(ClassifyTokens, MaxTokens)
    /\ last.detection.confidence * 10 = confidence_threshold
    /\ last.detection.is_scam
    /\ last.detection.scam_type # None

\* C16: the reference prize-scam message (congratulations, won, lucky draw,
\* Rs, claim, hurry, expires and a ten-digit mobile number) is classified
\* as a scam of type prize_scam with confidence at least 0.6
C16_ReferencePrizeScam ==
    Classified /\ last.text \in {msg_prize, msg_test_prize} =>
        /\ last.detection.is_scam = TRUE
        /\ last.detection.scam_type = "prize_scam"
        /\ last.detection.confidence * 10 >= confidence_threshold

\* the reference message has been classified: 8 keywords, a phone number
\* and a digit run
C16_Witness ==
    /\ Classified
    /\ last.text = msg_prize
    /\ total_matches(lower(last.text)) = 8
    /\ has_phone_number(last.text)
    /\ ~has_upi_id(last.text)
    /\ last.detection.scam_type = "prize_scam"

(***************************************************************************)
(* extract_all on single texts: SpecExtract draws a text and extracts from *)
(* it, as generate_response does with the scammer's message                *)
(* (ai_agent.py:89)                                                        *)
(***************************************************************************)
\* pieces of messages: a 12-digit run, words that hold "acc" without
\* "account", the words bank, IFSC and account, handles with a known
\* provider, with an unknown one, and with a provider's name before the
\* "@", and a mobile number
ExtractTokens ==
    {"123456789012 ",
     "9876543210 ",
     "Please accept ",
     "my Bank ",
     "IFSC HDFC0001234 ",
     "to the account ",
     "name@phonepe ",
     "name@unknownprovider ",
     "paytm@unknown.com "}

ExtractTexts == TokenTexts(ExtractTokens, MaxTokens) \cup Texts

InitExtract ==
    /\ sessions = [sid \in AllSessionIds |-> NoObject]
    /\ openai_api_key \in {"set", None}
    /\ \E text \in ExtractTexts : last = [text |-> text, extracted |-> NoObject]
    /\ pending = {}
    /\ submitted = 0
    /\ saw_zero = 0

\* extracted = self.extractor.extract_all(scammer_message)
extract ==
    /\ last.extracted = NoObject
    /\ last' = [last EXCEPT !.extracted = extract_all(last.text)]
    /\ UNCHANGED <<sessions, openai_api_key, pending, submitted, saw_zero>>

NextExtract == extract

SpecExtract == InitExtract /\ [][NextExtract]_vars

\* the text has been through extract_all
Extracted == last.extracted # NoObject

ProviderPart(handle) ==
    LET at == CHOOSE i \in 1..Len(handle) :
                 /\ Char(handle, i) = "@"
                 /\ \A j \in 1..(i - 1) : Char(handle, j) # "@"
    IN SubSeq(handle, at + 1, Len(handle))

\* C18: every extracted payment handle has a provider part (after the "@")
\* that names a provider of the whitelist, name@phonepe is extracted from
\* every text that holds it, and name@unknownprovider is never extracted
C18_ProviderWhitelisted ==
    Extracted =>
        /\ \A n \in 1..Len(last.extracted.upi_ids) :
              /\ Contains(last.extracted.upi_ids[n], "@")
              /\ ContainsAny(lower(ProviderPart(last.extracted.upi_ids[n])),
                             upi_providers)
        /\ Contains(last.text, "name@phonepe ")
              => \E n \in 1..Len(last.extracted.upi_ids) :
                    last.extracted.upi_ids[n] = "name@phonepe"
        /\ \A n \in 1..Len(last.extracted.upi_ids) :
              last.extracted.upi_ids[n] # "name@unknownprovider"

C21_NotScamIsTerminal ==
    [][\A sid \in AllSessionIds :
          (/\ sessions[sid] # NoObject
           /\ sessions[sid].turn_count >= 1
           /\ ~sessions[sid].scam_detected
           /\ last'.sid = sid)
              => /\ last'.status = 200
                 /\ last'.reply = neutral_reply
                 /\ last'.generation = "none"
                 /\ ~last'.detected
                 /\ last'.callback = "none"
                 /\ sessions'[sid].turn_count = sessions[sid].turn_count + 1
                 /\ ~sessions'[sid].scam_detected
                 /\ sessions'[sid].confidence = sessions[sid].confidence
                 /\ sessions'[sid].scam_type = sessions[sid].scam_type
                 /\ sessions'[sid].agent = NoObject
                 /\ ~sessions'[sid].callback_sent]_vars

\* a session that was classified as not a scam has taken five turns, the
\* last of them with a text that, as a first message, is classified as a
\* scam
C21_Witness ==
    /\ last.sid \in AllSessionIds
    /\ last.text = msg_bare
    /\ DetectionOf[msg_bare].is_scam
    /\ ~sessions[last.sid].scam_detected
    /\ sessions[last.sid].turn_count = 5
    /\ last.reply = neutral_reply

(***************************************************************************)
(* Properties of SpecAsk                                                   *)
(***************************************************************************)
\* C22: the PRIORITY line of every turn of a scam session follows the
\* agent's lists as they are once the turn's text has been merged: it asks
\* for a payment handle if none is listed, else for a phone number if none
\* is listed, else for links if no URL is listed, else it says to continue
\* naturally; it never asks for a kind that an earlier turn listed
C22_PriorityByPrecedence ==
    [][\A sid \in AllSessionIds :
          (/\ last'.sid = sid
           /\ last'.status = 200
           /\ sessions'[sid].turn_count = TurnCount(sid) + 1
           /\ sessions'[sid].scam_detected)
              => /\ last'.priority = "upi_id"
                       <=> Listed(sessions'[sid], "upi_ids") = <<>>
                 /\ last'.priority = "phone_number"
                       <=> /\ Listed(sessions'[sid], "upi_ids") # <<>>
                           /\ Listed(sessions'[sid], "phone_numbers") = <<>>
                 /\ last'.priority = "links"
                       <=> /\ Listed(sessions'[sid], "upi_ids") # <<>>
                           /\ Listed(sessions'[sid], "phone_numbers") # <<>>
                           /\ Listed(sessions'[sid], "urls") = <<>>
                 /\ last'.priority = "naturally"
                       <=> /\ Listed(sessions'[sid], "upi_ids") # <<>>
                           /\ Listed(sessions'[sid], "phone_numbers") # <<>>
                           /\ Listed(sessions'[sid], "urls") # <<>>
                 /\ sessions[sid] # NoObject
                       => /\ Listed(sessions[sid], "upi_ids") # <<>>
                                => last'.priority # "upi_id"
                          /\ Listed(sessions[sid], "phone_numbers") # <<>>
                                => last'.priority # "phone_number"
                          /\ Listed(sessions[sid], "urls") # <<>>
                                => last'.priority # "links"]_vars

\* a turn whose text brought the phone number, while the handle came in an
\* earlier turn: the line asks for links
C22_Witness ==
    /\ last.sid \in AllSessionIds
    /\ last.status = 200
    /\ last.text = msg_phone
    /\ last.priority = "links"
    /\ sessions[last.sid].scam_detected
    /\ Listed(sessions[last.sid], "upi_ids") # <<>>
    /\ Listed(sessions[last.sid], "urls") = <<>>

(***************************************************************************)
(* Properties of SpecClassify: texts without a keyword                     *)
(***************************************************************************)
\* the text matches none of the keywords
NoKeyword == total_matches(lower(last.text)) = 0

\* C23: a message in which no keyword matches is not flagged, whatever
\* patterns (URL, payment handle, phone number, digit run) it holds
C23_PatternsAloneNotFlagged ==
    Classified /\ NoKeyword =>
        /\ ~last.detection.is_scam
        /\ last.detection.confidence * 10 < confidence_threshold
        /\ last.detection.scam_type = None

\* a text with no keyword and all four patterns has been classified: its
\* pattern score is 1.0, its confidence 0.5
C23_Witness ==
    /\ Classified
    /\ NoKeyword
    /\ has_url(last.text)
    /\ has_upi_id(last.text)
    /\ has_phone_number(last.text)
    /\ search("digits", last.text)
    /\ check_patterns(last.text) = 1000
    /\ last.detection.confidence = 50
    /\ ~last.detection.is_scam

\* the text has no keyword, a URL, a payment handle of a listed provider,
\* no phone number and no digit run
UrlAndHandleOnly ==
    /\ NoKeyword
    /\ has_url(last.text)
    /\ extract_upi_ids(last.text) # <<>>
    /\ ~has_phone_number(last.text)
    /\ ~search("digits", last.text)

\* C24, as stated: a message with no keyword, a URL and a payment handle of
\* a listed provider, and no phone number or digit run, has pattern score
\* 0.3, keyword score 0, confidence 0.15, and is not flagged
C24_UrlAndHandleScore ==
    Classified /\ UrlAndHandleOnly =>
        /\ check_patterns(last.text) = 300
        /\ check_keywords(lower(last.text)) = 0
        /\ last.detection.confidence = 15
        /\ ~last.detection.is_scam

\* C24, amended: such a message has keyword score 0 and is not flagged;
\* its pattern score is 0.6 and its confidence 0.3 when the handle names
\* one of paytm, phonepe, gpay, ybl, the providers _has_upi_id knows, and
\* 0.3 and 0.15 when it names another provider of extract_upi_ids
C24_UrlAndHandleScoreByProvider ==
    Classified /\ UrlAndHandleOnly =>
        /\ check_keywords(lower(last.text)) = 0
        /\ ~last.detection.is_scam
        /\ IF \E n \in 1..Len(extract_upi_ids(last.text)) :
                 ContainsAny(lower(extract_upi_ids(last.text)[n]),
                             <<"paytm", "phonepe", "gpay", "ybl">>)
           THEN check_patterns(last.text) = 600 /\ last.detection.confidence = 30
           ELSE check_patterns(last.text) = 300 /\ last.detection.confidence = 15

\* a text with a URL and name@phonepe, and nothing else that counts, has
\* been classified with confidence 0.3
C24_Witness ==
    /\ Classified
    /\ UrlAndHandleOnly
    /\ Contains(last.text, "name@phonepe")
    /\ ~Contains(last.text, "name@oksbi")
    /\ last.detection.confidence = 30

(***************************************************************************)
(* Properties of SpecExtract: the lists of one extraction                  *)
(***************************************************************************)
\* C25: in the result of extract_all no list holds a string twice: a
\* handle, account number, phone number or URL that occurs several times
\* in the text is listed once
C25_ExtractedListsUnique ==
    Extracted =>
        \A key \in {"upi_ids", "bank_accounts", "ifsc_codes", "phone_numbers",
                    "urls"} :
            NoDuplicates(last.extracted[key])

\* C26: in the result of extract_all no string is in two of the lists of
\* handles, bank accounts, IFSC codes, phone numbers and URLs; a ten-digit
\* mobile number is not also a bank account
C26_CategoriesDisjoint ==
    Extracted =>
        \A key, other \in {"upi_ids", "bank_accounts", "ifsc_codes",
                           "phone_numbers", "urls"} :
            key # other =>
                \A n \in 1..Len(last.extracted[key]) :
                    \A k \in 1..Len(last.extracted[other]) :
                        last.extracted[key][n] # last.extracted[other][k]

C28_HistoryGrowsByTwo ==
    [][\A sid \in AllSessionIds :
          (/\ last'.sid = sid
           /\ last'.status = 200
           /\ sessions'[sid].scam_detected)
              => LET before == IF sessions[sid] = NoObject THEN <<>>
                               ELSE IF sessions[sid].agent = NoObject THEN <<>>
                               ELSE sessions[sid].agent.conversation_history
                     after == sessions'[sid].agent.conversation_history
                 IN /\ Len(after) = Len(before) + 2
                    /\ after[Len(after) - 1]
                          = [role |-> "user", content |-> last'.text]
                    /\ after[Len(after)]
                          = [role |-> "assistant", content |-> last'.reply]
                    /\ Len(after) = 2 * sessions'[sid].turn_count]_vars

====
